---- MODULE Spec2Model ----
(***************************************************************************)
(* Model of the live voice session of the NIHARA companion application     *)
(* (src/App.tsx): the audio codec helpers, the playback scheduler, the     *)
(* transcript aggregator and the tool-call dispatcher of                   *)
(* handleToggleLiveMode, over the browser's event loop.                    *)
(***************************************************************************)
EXTENDS Integers, Sequences, FiniteSets, TLC

(***************************************************************************)
(* Bounds of the model.                                                    *)
(***************************************************************************)
\* samples per captured block (codec specification)
MaxSamples == 2
\* realtime sessions connected in one run
MaxSessions == 2
\* audio sources alive at a time (scheduled, 'ended' not yet handled)
MaxNodes == 2
\* function calls received in one run
MaxCalls == 2
\* transcript fragments accumulated per role
MaxFrags == 2
\* last value of the output audio clock
MaxClock == 3
\* messages of a session still inside the SDK when the session is closed
MaxLate == 1

(***************************************************************************)
(* Program constants.                                                      *)
(***************************************************************************)
\* the scale factor of createBlobFromAudio and decodeAudioData
Scale == 32768
\* Int16Array element width: values wrap modulo 2^16
Int16Mod == 65536
\* Uint8Array element width
ByteMod == 256
\* Samples are rationals k / SampleDen; SubDiv sub-steps per 16-bit quantum.
SubDiv == 4
SampleDen == Scale * SubDiv
\* setTimeout(() => setLiveActionStatus(null), 3000), in clock ticks
ActionDelay == 2

VARIABLES
    \* React state of App
    isLive, liveStatus, liveActionStatus, liveTranscript,
    currentPersonality, currentMode,
    \* refs of App
    liveSessionPromiseRef, liveTranscriptRef, outputAudioContextRef,
    audioSourcesRef, nextStartTimeRef,
    \* the environment: sessions of the SDK, the output audio clock, the
    \* AudioBufferSourceNodes created so far, timers, React's update queue
    sessions, closeReq, late, suspended, currentTime, nodes, timers, fiber,
    \* observation: what was sent and received
    sent, calls, heard, turnSnap, flushed, run, playedEnd, e2e,
    \* the isLive that the handleToggleLiveMode held by the UI closed over
    renderedIsLive,
    \* microphone capture of each session, the draw loops that have a frame
    \* requested, the loop whose request animationFrameRef holds, the number
    \* of session.close() calls on each session and of sendRealtimeInput
    \* calls for each session
    capture, drawing, animationFrameRef, closeCalls, realtimeInput,
    \* codec specification
    samples, wire, decoded, codecPc, channelCount,
    \* handleSendMessage: the function calls of the response, the responses
    \* built for them, the reminders, the toast, the loading flag, what the
    \* assistant message shows, and the position of the handler
    responseCalls, functionResponses, reminders, toast, isLoading,
    assistantMessage, sendPc,
    \* the messages of the chat on screen, and the id that the call of
    \* handleSendMessage in flight gave to its assistant message
    messages, assistantMessageId,
    \* the saved chats, the id of the chat on screen, and the position of
    \* handleNewChat, handleLoadChat or the mode change in flight
    history, currentChatId, chatPc,
    \* Date.now()
    now,
    \* processAiInteraction: the bond level, the mood derived from it, the
    \* memories, the interactions waiting for analyzeSentiment and for
    \* extractMemory, and the number of memories extracted so far
    bondLevel, mood, memories, analysing, extracting, extractedCount

reactVars == << isLive, liveStatus, liveActionStatus, liveTranscript,
                currentPersonality, currentMode, renderedIsLive >>
refVars == << liveSessionPromiseRef, liveTranscriptRef, outputAudioContextRef,
              audioSourcesRef, nextStartTimeRef >>
envVars == << sessions, closeReq, late, suspended, currentTime, nodes, timers,
              fiber >>
obsVars == << sent, calls, heard, turnSnap, flushed, run, playedEnd, e2e >>
captureVars == << capture, drawing, animationFrameRef, closeCalls,
                 realtimeInput >>
codecVars == << samples, wire, decoded, codecPc, channelCount >>
sendVars == << responseCalls, functionResponses, isLoading, assistantMessage,
              sendPc, messages, assistantMessageId >>
historyVars == << history, currentChatId, chatPc >>
bondVars == << bondLevel, mood, memories, analysing, extracting,
              extractedCount >>
chatVars == << sendVars, historyVars, reminders, toast, now, bondVars >>
liveVars == << reactVars, refVars, envVars, obsVars, captureVars >>
vars == << liveVars, codecVars, chatVars >>

(***************************************************************************)
(* Audio codec (App.tsx 15-64).                                            *)
(***************************************************************************)
Pad == 64

\* btoa over the binary string built from the bytes: base64 characters are
\* modelled by their index in the base64 alphabet, Pad is '='.
RECURSIVE encode(_)
encode(bytes) ==
    IF Len(bytes) = 0 THEN << >>
    ELSE IF Len(bytes) = 1 THEN
        << bytes[1] \div 4, (bytes[1] % 4) * 16, Pad, Pad >>
    ELSE IF Len(bytes) = 2 THEN
        << bytes[1] \div 4,
           (bytes[1] % 4) * 16 + bytes[2] \div 16,
           (bytes[2] % 16) * 4,
           Pad >>
    ELSE
        << bytes[1] \div 4,
           (bytes[1] % 4) * 16 + bytes[2] \div 16,
           (bytes[2] % 16) * 4 + bytes[3] \div 64,
           bytes[3] % 64 >>
        \o encode(SubSeq(bytes, 4, Len(bytes)))

\* atob, then one byte per character of the binary string.
RECURSIVE decode(_)
decode(base64) ==
    IF Len(base64) < 4 THEN << >>
    ELSE
        LET a == base64[1]
            b == base64[2]
            c == base64[3]
            d == base64[4]
            b1 == a * 4 + b \div 16
            b2 == (b % 16) * 16 + c \div 4
            b3 == (c % 4) * 64 + d
        IN  IF c = Pad THEN << b1 >>
            ELSE IF d = Pad THEN << b1, b2 >>
            ELSE << b1, b2, b3 >> \o decode(SubSeq(base64, 5, Len(base64)))

\* Number -> Int16Array element: truncate toward zero, wrap modulo 2^16.
TruncDiv(n, d) == IF n >= 0 THEN n \div d ELSE -((-n) \div d)

ToInt16(n) ==
    LET m == n % Int16Mod
    IN  IF m >= Int16Mod \div 2 THEN m - Int16Mod ELSE m

\* new Uint8Array(int16.buffer): two bytes per element, little-endian.
RECURSIVE Int16ToBytes(_)
Int16ToBytes(int16) ==
    IF Len(int16) = 0 THEN << >>
    ELSE LET u == int16[1] % Int16Mod
         IN  << u % ByteMod, u \div ByteMod >> \o Int16ToBytes(Tail(int16))

\* new Int16Array(data.buffer) for an even byte count.
RECURSIVE BytesToInt16(_)
BytesToInt16(bytes) ==
    IF Len(bytes) < 2 THEN << >>
    ELSE << ToInt16(bytes[1] + ByteMod * bytes[2]) >>
         \o BytesToInt16(SubSeq(bytes, 3, Len(bytes)))

\* int16[i] = data[i] * 32768 for a sample data[i] = k / SampleDen: the
\* product is k / SubDiv, which the typed array truncates and wraps.
Quantize(k) == ToInt16(TruncDiv(k, SubDiv))

createBlobFromAudio(data) ==
    encode(Int16ToBytes([i \in 1..Len(data) |-> Quantize(data[i])]))

\* dataInt16[i] / 32768.0 as a numerator over SampleDen.
Dequantize(v) == v * SubDiv

\* The result is [ok, channels]: ok = FALSE stands for the exception thrown by
\* new Int16Array (odd byte length) or by createBuffer (zero frames).
decodeAudioData(data, numChannels) ==
    IF Len(data) % 2 # 0 THEN [ok |-> FALSE, channels |-> << >>]
    ELSE
        LET dataInt16 == BytesToInt16(data)
            frameCount == Len(dataInt16) \div numChannels
        IN  IF frameCount = 0 THEN [ok |-> FALSE, channels |-> << >>]
            ELSE [ok |-> TRUE,
                  channels |->
                    [channel \in 1..numChannels |->
                      [i \in 1..frameCount |->
                        Dequantize(dataInt16[(i - 1) * numChannels + channel])]]]

(***************************************************************************)
(* Values.                                                                 *)
(***************************************************************************)
\* Object.values(Personality) and Object.values(AppMode): the members that
\* App.tsx names, and one more personality.
Personalities == {"Nihara", "Mentor"}
AppModes == {"Chat", "DeepResearch", "AIDiary"}
AIDiary == "AIDiary"

NoSession == 0
SessionIds == 1..MaxSessions

EmptyTranscript == [user |-> << >>, assistant |-> << >>]
NoUpdate == [kind |-> "none", user |-> << >>, assistant |-> << >>]

\* Inline audio payloads (base64): one frame, two frames, and a payload of an
\* odd number of bytes.  One frame lasts one tick of the output clock.
OneFrame == encode(<< 0, 64 >>)
TwoFrames == encode(<< 0, 64, 255, 127 >>)
OddBytes == encode(<< 0, 64, 1 >>)
NoAudio == << >>

\* fc.args of a function call: a value, or NoArgs when the call has no args.
NoArgs == "NoArgs"

FunctionCall(name, arg) == [name |-> name, arg |-> arg]

Message(interrupted, toolCall, outT, inT, turnComplete, audio) ==
    [interrupted |-> interrupted, toolCall |-> toolCall,
     outputTranscription |-> outT, inputTranscription |-> inT,
     turnComplete |-> turnComplete, audio |-> audio]

Max(a, b) == IF a >= b THEN a ELSE b

RunCap == 3

NoRun == [n |-> 0, first |-> 0, sum |-> 0, lastEnd |-> 0]

EndOf(node) == node.start + node.dur

(***************************************************************************)
(* The state a handler reads and writes, as one record, so that a handler  *)
(* is the composition of its statements.                                   *)
(***************************************************************************)
Cur ==
    [status |-> liveStatus, action |-> liveActionStatus,
     pers |-> currentPersonality, mode |-> currentMode,
     tref |-> liveTranscriptRef, sources |-> audioSourcesRef,
     nextStart |-> nextStartTimeRef, nodes |-> nodes, timers |-> timers,
     fiber |-> fiber, sent |-> sent, flushed |-> flushed, run |-> run,
     playedEnd |-> playedEnd, s2l |-> e2e.s2l, threw |-> FALSE]

Commit(h) ==
    /\ liveStatus' = h.status
    /\ liveActionStatus' = h.action
    /\ currentPersonality' = h.pers
    /\ currentMode' = h.mode
    /\ liveTranscriptRef' = h.tref
    /\ audioSourcesRef' = h.sources
    /\ nextStartTimeRef' = h.nextStart
    /\ nodes' = h.nodes
    /\ timers' = h.timers
    /\ fiber' = h.fiber
    /\ sent' = h.sent
    /\ flushed' = h.flushed
    /\ run' = h.run
    /\ playedEnd' = h.playedEnd

\* what a handler leaves alone, but for e2e
handlerFrame == << isLive, liveTranscript, liveSessionPromiseRef,
                   outputAudioContextRef, currentTime, calls, heard, turnSnap,
                   renderedIsLive, drawing, animationFrameRef, realtimeInput,
                   codecVars,
                   chatVars >>

\* A setState call from a callback: React computes the state at once when the
\* component has no update pending and drops a call that changes nothing;
\* otherwise the update waits for the next render (fiber.lanes).
Schedule(f, changed) == [f EXCEPT !.lanes = f.lanes \/ changed]

\* s2l observes the speaking -> listening transitions (2 stands for "many")
setLiveStatus(h, v) ==
    [h EXCEPT !.status = v,
              !.fiber = Schedule(h.fiber, v # h.status),
              !.s2l = IF h.status = "speaking" /\ v = "listening" /\ h.s2l < 2
                      THEN h.s2l + 1 ELSE h.s2l]

setCurrentPersonality(h, v) ==
    [h EXCEPT !.pers = v, !.fiber = Schedule(h.fiber, v # h.pers)]

setCurrentMode(h, v) ==
    [h EXCEPT !.mode = v, !.fiber = Schedule(h.fiber, v # h.mode)]

setLiveActionStatus(h, v) ==
    [h EXCEPT !.action = v, !.fiber = Schedule(h.fiber, v # h.action)]

\* setLiveTranscript({...liveTranscriptRef.current}): a new object each time.
setLiveTranscriptValue(h) ==
    [h EXCEPT !.fiber = [lanes |-> TRUE,
                         transcript |-> [kind |-> "value",
                                         user |-> h.tref.user,
                                         assistant |-> h.tref.assistant]]]

\* setLiveTranscript(prev => ({...prev, user: liveTranscriptRef.current.user,
\* assistant: liveTranscriptRef.current.assistant})): the updater reads the ref
\* when React runs it, at once if no update is pending, else at the render.
setLiveTranscriptUpdater(h) ==
    IF h.fiber.lanes
    THEN [h EXCEPT !.fiber = [lanes |-> TRUE,
                              transcript |-> [kind |-> "updater",
                                              user |-> << >>,
                                              assistant |-> << >>]]]
    ELSE setLiveTranscriptValue(h)

(***************************************************************************)
(* onmessage (App.tsx 492-557).                                            *)
(***************************************************************************)
\* source.stop() for every source of the active set: a stopped source plays
\* nothing more, and only its 'ended' event is left of it
Stopped == [start |-> 0, dur |-> 0, stopped |-> TRUE]

StopAll(h) ==
    [i \in DOMAIN h.nodes |->
        IF i \in h.sources THEN Stopped ELSE h.nodes[i]]

\* the flush with the active set left as it was
InterruptedKeepsSources(h, message) ==
    IF message.interrupted
    THEN LET h1 == setLiveStatus(h, "listening")
         IN  [h1 EXCEPT !.nodes = StopAll(h),
                        !.nextStart = 0,
                        !.flushed = TRUE,
                        !.run = NoRun]
    ELSE h

\* the flush with the next start time left as it was
InterruptedKeepsOffset(h, message) ==
    IF message.interrupted
    THEN LET h1 == setLiveStatus(h, "listening")
         IN  [h1 EXCEPT !.nodes = StopAll(h),
                        !.sources = {},
                        !.flushed = TRUE,
                        !.run = NoRun]
    ELSE h

\* lines 493-498
Interrupted(h, message) ==
    IF message.interrupted
    THEN LET h1 == setLiveStatus(h, "listening")
         IN  [h1 EXCEPT !.nodes = StopAll(h),
                        !.sources = {},
                        !.nextStart = 0,
                        !.flushed = TRUE,
                        !.run = NoRun]
    ELSE h

\* Object.values(AppMode).includes(newM)
IsAppMode(newM) == newM \in AppModes

IsPersonality(newP) == newP \in Personalities

\* lines 503-521: one iteration of the loop over functionCalls.  session is
\* the awaited liveSessionPromiseRef.current (NoSession when it was null).
\* Reading fc.args.personality of a call without args throws, and so does
\* session.sendToolResponse on a null session.
HandleCall(h, fc, session) ==
    LET named == fc.name \in {"changePersonality", "changeMode"}
        h1 == IF fc.name = "changePersonality" /\ IsPersonality(fc.arg)
              THEN setCurrentPersonality(h, fc.arg)
              ELSE IF fc.name = "changeMode" /\ IsAppMode(fc.arg)
              THEN setCurrentMode(h, fc.arg)
              ELSE h
        actionMessage ==
              IF fc.name = "changePersonality" /\ IsPersonality(fc.arg)
              THEN << "Personality set to", fc.arg >>
              ELSE IF fc.name = "changeMode" /\ IsAppMode(fc.arg)
              THEN << "Mode changed to", fc.arg >>
              ELSE << >>
        h2 == IF actionMessage # << >>
              THEN [setLiveActionStatus(h1, actionMessage)
                        EXCEPT !.timers = h1.timers \cup {currentTime + ActionDelay}]
              ELSE h1
    IN  IF named /\ fc.arg = NoArgs THEN [h EXCEPT !.threw = TRUE]
        ELSE IF session = NoSession THEN [h2 EXCEPT !.threw = TRUE]
        ELSE [h2 EXCEPT !.sent = Append(h2.sent,
                                   [id |-> fc.id, name |-> fc.name,
                                    result |-> "ok", session |-> session])]

\* lines 500-523, after the await
RECURSIVE ToolCalls(_, _, _)
ToolCalls(h, functionCalls, session) ==
    IF h.threw \/ functionCalls = << >> THEN h
    ELSE ToolCalls(HandleCall(h, Head(functionCalls), session),
                   Tail(functionCalls), session)

\* lines 525-528
Transcription(h, message) ==
    [h EXCEPT !.tref = [user |-> h.tref.user \o message.inputTranscription,
                        assistant |-> h.tref.assistant
                                        \o message.outputTranscription]]

\* the turn boundary setting the status whatever audio is pending
TurnCompleteListening(h, message) ==
    IF message.turnComplete
    THEN LET h1 == [setLiveTranscriptUpdater(h) EXCEPT !.tref = EmptyTranscript]
         IN  setLiveStatus(h1, "listening")
    ELSE setLiveTranscriptValue(h)

\* the turn boundary that never sets the status
TurnCompleteKeepsStatus(h, message) ==
    IF message.turnComplete
    THEN [setLiveTranscriptUpdater(h) EXCEPT !.tref = EmptyTranscript]
    ELSE setLiveTranscriptValue(h)

\* lines 530-536
TurnComplete(h, message) ==
    IF message.turnComplete
    THEN LET h1 == [setLiveTranscriptUpdater(h) EXCEPT !.tref = EmptyTranscript]
         IN  IF h1.sources = {} THEN setLiveStatus(h1, "listening") ELSE h1
    ELSE setLiveTranscriptValue(h)

\* audioBuffer.duration in ticks of the output clock: one frame, one tick
Duration(audioBuffer) == Len(audioBuffer.channels[1])

\* Observation of a scheduling: the run of chunks delivered back-to-back (no
\* interruption since the chunk before, which had not ended yet).  n counts
\* its chunks up to RunCap, first is the start of its first chunk, sum the
\* sum of its durations, lastEnd the end of its last chunk.
RunWith(h, startTime, dur) ==
    IF h.run.n > 0 /\ ~h.flushed /\ currentTime <= h.run.lastEnd
    THEN [n |-> IF h.run.n < RunCap THEN h.run.n + 1 ELSE RunCap,
          first |-> h.run.first,
          sum |-> h.run.sum + dur,
          lastEnd |-> startTime + dur]
    ELSE [n |-> 1, first |-> startTime, sum |-> dur,
          lastEnd |-> startTime + dur]

\* ctx.createBufferSource(): a source not alive yet
NewSource(h) == CHOOSE i \in 1..(MaxNodes + 1) :
                    /\ i \notin DOMAIN h.nodes
                    /\ \A j \in 1..(i - 1) : j \in DOMAIN h.nodes

\* the chunk started at the clock, whatever is queued
ScheduleAudioNow(h, message) ==
    IF message.audio # NoAudio /\ outputAudioContextRef
    THEN LET h1 == setLiveStatus(h, "speaking")
             startTime == currentTime
             audioBuffer == decodeAudioData(decode(message.audio), 1)
             source == NewSource(h)
         IN  IF ~audioBuffer.ok
             THEN [h1 EXCEPT !.nextStart = startTime, !.threw = TRUE]
             ELSE [h1 EXCEPT
                     !.nodes = (source :> [start |-> startTime,
                                           dur |-> Duration(audioBuffer),
                                           stopped |-> FALSE]) @@ h.nodes,
                     !.nextStart = startTime + Duration(audioBuffer),
                     !.sources = h.sources \cup {source},
                     !.run = RunWith(h, startTime, Duration(audioBuffer)),
                     !.flushed = FALSE]
    ELSE h

\* the next start time not advanced by the chunk's duration
ScheduleAudioNoAdvance(h, message) ==
    IF message.audio # NoAudio /\ outputAudioContextRef
    THEN LET h1 == setLiveStatus(h, "speaking")
             startTime == Max(h1.nextStart, currentTime)
             audioBuffer == decodeAudioData(decode(message.audio), 1)
             source == NewSource(h)
         IN  IF ~audioBuffer.ok
             THEN [h1 EXCEPT !.nextStart = startTime, !.threw = TRUE]
             ELSE [h1 EXCEPT
                     !.nodes = (source :> [start |-> startTime,
                                           dur |-> Duration(audioBuffer),
                                           stopped |-> FALSE]) @@ h.nodes,
                     !.nextStart = startTime,
                     !.sources = h.sources \cup {source},
                     !.run = RunWith(h, startTime, Duration(audioBuffer)),
                     !.flushed = FALSE]
    ELSE h

\* lines 538-556
ScheduleAudio(h, message) ==
    IF message.audio # NoAudio /\ outputAudioContextRef
    THEN LET h1 == setLiveStatus(h, "speaking")
             startTime == Max(h1.nextStart, currentTime)
             audioBuffer == decodeAudioData(decode(message.audio), 1)
             source == NewSource(h)
         IN  IF ~audioBuffer.ok
             THEN [h1 EXCEPT !.nextStart = startTime, !.threw = TRUE]
             ELSE [h1 EXCEPT
                     !.nodes = (source :> [start |-> startTime,
                                           dur |-> Duration(audioBuffer),
                                           stopped |-> FALSE]) @@ h.nodes,
                     !.nextStart = startTime + Duration(audioBuffer),
                     !.sources = h.sources \cup {source},
                     !.run = RunWith(h, startTime, Duration(audioBuffer)),
                     !.flushed = FALSE]
    ELSE h

\* The handler from the end of the await on the session promise.
AfterAwait(h, message, session) ==
    LET h2 == ToolCalls(h, message.toolCall, session)
        h3 == IF h2.threw THEN h2 ELSE Transcription(h2, message)
        h4 == IF h3.threw THEN h3 ELSE TurnComplete(h3, message)
    IN  IF h4.threw THEN h4 ELSE ScheduleAudio(h4, message)

(***************************************************************************)
(* Observation of a run: what was received since the last turn boundary,   *)
(* and the position in the end-to-end scenario "open, chunks back-to-back, *)
(* turn complete while audio is pending".                                  *)
(***************************************************************************)
HeardWith(message) ==
    [user |-> heard.user \o message.inputTranscription,
     assistant |-> heard.assistant \o message.outputTranscription]

ValidAudio(message) ==
    message.audio # NoAudio /\ decodeAudioData(decode(message.audio), 1).ok

\* s2l counts the speaking -> listening transitions of the scenario
Scenario(phase, h) ==
    [phase |-> phase, s2l |-> IF phase = "none" THEN 0 ELSE h.s2l]

\* the phase after a message was handled whole (h: what the handler left)
PhaseAfter(message, h) ==
    IF e2e.phase \in {"open", "chunks"} /\ ~h.threw /\ ~message.interrupted
       /\ ~message.turnComplete /\ ValidAudio(message)
    THEN "chunks"
    ELSE IF e2e.phase = "chunks" /\ ~h.threw /\ ~message.interrupted
            /\ message.turnComplete /\ message.audio = NoAudio
            /\ audioSourcesRef # {}
    THEN "turned"
    ELSE IF ~h.threw /\ ~message.interrupted /\ ~message.turnComplete
            /\ message.audio = NoAudio
    THEN e2e.phase
    ELSE "none"

(***************************************************************************)
(* handleToggleLiveMode (App.tsx 437-571).                                 *)
(***************************************************************************)
Resolved(s) == sessions[s] \in {"open", "closing", "closed"}

\* one more session.close() call (2 stands for "many")
Called(n) == IF n < 2 THEN n + 1 ELSE 2

\* the close branch without line 441: the reference is kept
CloseBranchKeepsRef ==
    /\ renderedIsLive
    /\ isLive' = FALSE
    /\ liveStatus' = "idle"
    /\ UNCHANGED liveSessionPromiseRef
    /\ IF liveSessionPromiseRef = NoSession
       THEN UNCHANGED << sessions, closeReq, late, closeCalls >>
       ELSE LET s == liveSessionPromiseRef
            IN  IF sessions[s] = "connecting"
                THEN /\ closeReq' = closeReq \cup {s}
                     /\ UNCHANGED << sessions, late, closeCalls >>
                ELSE /\ closeCalls' = [closeCalls EXCEPT ![s] = Called(@)]
                     /\ IF sessions[s] = "open"
                        THEN /\ sessions' = [sessions EXCEPT ![s] = "closing"]
                             /\ \E n \in 0..MaxLate :
                                    late' = [late EXCEPT ![s] = n]
                             /\ UNCHANGED closeReq
                        ELSE UNCHANGED << sessions, closeReq, late >>
    /\ drawing' = drawing \ {animationFrameRef}
    /\ e2e' = [phase |-> "none", s2l |-> 0]
    /\ UNCHANGED << liveActionStatus, liveTranscript, currentPersonality,
                    currentMode, liveTranscriptRef, outputAudioContextRef,
                    audioSourcesRef, nextStartTimeRef, suspended, currentTime,
                    nodes, timers, fiber, sent, calls, heard, turnSnap,
                    flushed, run, playedEnd, capture, animationFrameRef,
                    realtimeInput, codecVars, chatVars >>

\* lines 438-447, in a handler that closed over isLive = true
CloseBranch ==
    /\ renderedIsLive
    /\ isLive' = FALSE
    /\ liveStatus' = "idle"
    /\ liveSessionPromiseRef' = NoSession
    /\ IF liveSessionPromiseRef = NoSession
       THEN UNCHANGED << sessions, closeReq, late, closeCalls >>
       ELSE LET s == liveSessionPromiseRef
            IN  IF sessions[s] = "connecting"
                THEN /\ closeReq' = closeReq \cup {s}
                     /\ UNCHANGED << sessions, late, closeCalls >>
                ELSE /\ closeCalls' = [closeCalls EXCEPT ![s] = Called(@)]
                     /\ IF sessions[s] = "open"
                        THEN /\ sessions' = [sessions EXCEPT ![s] = "closing"]
                             /\ \E n \in 0..MaxLate :
                                    late' = [late EXCEPT ![s] = n]
                             /\ UNCHANGED closeReq
                        ELSE UNCHANGED << sessions, closeReq, late >>
    /\ drawing' = drawing \ {animationFrameRef}
    /\ e2e' = [phase |-> "none", s2l |-> 0]
    /\ UNCHANGED << liveActionStatus, liveTranscript, currentPersonality,
                    currentMode, liveTranscriptRef, outputAudioContextRef,
                    audioSourcesRef, nextStartTimeRef, suspended, currentTime,
                    nodes, timers, fiber, sent, calls, heard, turnSnap,
                    flushed, run, playedEnd, capture, animationFrameRef,
                    realtimeInput, codecVars, chatVars >>

\* lines 449-570, in a handler that closed over isLive = false
OpenBranch ==
    /\ ~renderedIsLive
    /\ \E s \in SessionIds :
        /\ sessions[s] = "none"
        /\ \A r \in SessionIds : r < s => sessions[r] # "none"
        /\ sessions' = [sessions EXCEPT ![s] = "connecting"]
        /\ liveSessionPromiseRef' = s
    /\ isLive' = TRUE
    /\ liveStatus' = "listening"
    /\ outputAudioContextRef' = TRUE
    /\ e2e' = [phase |-> "open", s2l |-> 0]
    /\ UNCHANGED << liveActionStatus, liveTranscript, currentPersonality,
                    currentMode, liveTranscriptRef, audioSourcesRef,
                    nextStartTimeRef, closeReq, late, suspended, currentTime,
                    nodes, timers, fiber, sent, calls, heard, turnSnap,
                    flushed, run, playedEnd, captureVars, codecVars,
                    chatVars >>

handleToggleLiveMode == CloseBranch \/ OpenBranch

\* A click on the toggle: React renders App at the end of a click, so the
\* next handler closes over the isLive this one has set.
Click == handleToggleLiveMode /\ renderedIsLive' = isLive'

\* A call of the handler that React does not render after at once.
Trigger == handleToggleLiveMode /\ UNCHANGED renderedIsLive

(***************************************************************************)
(* The session promise resolves: the handlers suspended on it go on, in    *)
(* the order they were suspended, then a close requested meanwhile runs.   *)
(***************************************************************************)
RECURSIVE Resume(_, _, _)
Resume(h, waiting, s) ==
    IF waiting = << >> THEN h
    ELSE Resume(IF Head(waiting).awaiting = s
                THEN [AfterAwait(h, Head(waiting).message, s)
                        EXCEPT !.threw = FALSE]
                ELSE h,
                Tail(waiting), s)

RECURSIVE Others(_, _)
Others(waiting, s) ==
    IF waiting = << >> THEN << >>
    ELSE IF Head(waiting).awaiting = s THEN Others(Tail(waiting), s)
    ELSE << Head(waiting) >> \o Others(Tail(waiting), s)

Connected(s) ==
    /\ sessions[s] = "connecting"
    /\ sessions' = [sessions EXCEPT ![s] = IF s \in closeReq THEN "closing"
                                         ELSE "open"]
    /\ closeReq' = closeReq \ {s}
    /\ closeCalls' = IF s \in closeReq
                     THEN [closeCalls EXCEPT ![s] = Called(@)]
                     ELSE closeCalls
    /\ capture' = [capture EXCEPT ![s] = "asking"]
    /\ Commit(Resume(Cur, suspended, s))
    /\ suspended' = Others(suspended, s)
    /\ e2e' = IF Others(suspended, s) # suspended
              THEN [phase |-> "none", s2l |-> 0] ELSE e2e
    /\ UNCHANGED << late, handlerFrame >>

(***************************************************************************)
(* A server message is handed to onmessage.  The SDK reads a received      *)
(* frame asynchronously before it calls onmessage, so up to MaxLate        *)
(* messages of a session are handled after the session was closed.         *)
(***************************************************************************)
Stamp(message) ==
    [message EXCEPT !.toolCall =
        [i \in 1..Len(message.toolCall) |->
            [id |-> Len(calls) + i,
             name |-> message.toolCall[i].name,
             arg |-> message.toolCall[i].arg]]]

\* The bounds of a run: sources alive, the clock, calls received, fragments.
InBounds(message) ==
    /\ ValidAudio(message) =>
        /\ Cardinality(DOMAIN nodes) + Len(suspended) < MaxNodes
        /\ Max(IF message.interrupted THEN 0 ELSE nextStartTimeRef, currentTime)
             + Duration(decodeAudioData(decode(message.audio), 1)) <= MaxClock
    /\ Len(calls) + Len(message.toolCall) <= MaxCalls
    /\ Len(liveTranscriptRef.user \o message.inputTranscription) <= MaxFrags
    /\ Len(liveTranscriptRef.assistant \o message.outputTranscription)
          <= MaxFrags
    /\ Len(HeardWith(message).user) <= MaxFrags
    /\ Len(HeardWith(message).assistant) <= MaxFrags

Deliverable(s) ==
    \/ sessions[s] = "open"
    \/ sessions[s] \in {"closing", "closed"} /\ late[s] > 0

onmessage(s, msg) ==
    LET message == Stamp(msg)
        h1 == Interrupted(Cur, message)
        ref == liveSessionPromiseRef
        suspends == /\ message.toolCall # << >>
                    /\ ref # NoSession
                    /\ ~Resolved(ref)
        h == IF suspends THEN h1 ELSE AfterAwait(h1, message, ref)
    IN  /\ Deliverable(s)
        /\ InBounds(message)
        /\ late' = IF sessions[s] = "open" THEN late
                   ELSE [late EXCEPT ![s] = late[s] - 1]
        /\ Commit(h)
        /\ suspended' = IF suspends
                        THEN Append(suspended, [message |-> message,
                                                awaiting |-> ref])
                        ELSE suspended
        /\ calls' = calls \o [i \in 1..Len(message.toolCall) |->
                                [name |-> message.toolCall[i].name,
                                 arg |-> message.toolCall[i].arg]]
        /\ heard' = IF message.turnComplete THEN EmptyTranscript
                    ELSE HeardWith(message)
        /\ turnSnap' = IF message.turnComplete
                       THEN [valid |-> TRUE,
                             user |-> HeardWith(message).user,
                             assistant |-> HeardWith(message).assistant]
                       ELSE [valid |-> FALSE, user |-> << >>,
                             assistant |-> << >>]
        /\ e2e' = Scenario(IF suspends THEN "none" ELSE PhaseAfter(message, h), h)
        /\ UNCHANGED << isLive, liveTranscript, liveSessionPromiseRef,
                        outputAudioContextRef, sessions, closeReq, currentTime,
                        renderedIsLive, captureVars, codecVars, chatVars >>

\* lines 547-552: the 'ended' listener of source n, once the source has played
\* to its end or was stopped; the source is then garbage
Ended(n) ==
    /\ n \in DOMAIN nodes
    /\ nodes[n].stopped \/ currentTime >= EndOf(nodes[n])
    /\ LET h1 == [Cur EXCEPT
                    !.sources = audioSourcesRef \ {n},
                    !.nodes = [i \in DOMAIN nodes \ {n} |-> nodes[i]],
                    !.playedEnd = IF nodes[n].stopped THEN playedEnd
                                  ELSE Max(playedEnd, EndOf(nodes[n]))]
           h == IF h1.sources = {} THEN setLiveStatus(h1, "listening") ELSE h1
       IN  /\ Commit(h)
           /\ e2e' = Scenario(IF e2e.phase = "chunks" /\ h.sources = {}
                               THEN "none" ELSE e2e.phase, h)
    /\ UNCHANGED << sessions, closeReq, late, suspended, capture, closeCalls,
                    handlerFrame >>

\* line 558; the socket closes after an error
onerror(s) ==
    /\ sessions[s] = "open"
    /\ sessions' = [sessions EXCEPT ![s] = "closing"]
    /\ Commit(setLiveStatus(Cur, "idle"))
    /\ e2e' = [phase |-> "none", s2l |-> 0]
    /\ UNCHANGED << closeReq, late, suspended, capture, closeCalls,
                    handlerFrame >>

\* onclose that also tears the playback down
oncloseStopsPlayback(s) ==
    /\ sessions[s] = "closing"
    /\ sessions' = [sessions EXCEPT ![s] = "closed"]
    /\ Commit([setLiveStatus(Cur, "idle") EXCEPT
                  !.sources = {}, !.nextStart = 0,
                  !.nodes = StopAll(Cur)])
    /\ e2e' = [phase |-> "none", s2l |-> 0]
    /\ UNCHANGED << closeReq, late, suspended, capture, closeCalls,
                    handlerFrame >>

\* line 559
onclose(s) ==
    /\ sessions[s] = "closing"
    /\ sessions' = [sessions EXCEPT ![s] = "closed"]
    /\ Commit(setLiveStatus(Cur, "idle"))
    /\ e2e' = [phase |-> "none", s2l |-> 0]
    /\ UNCHANGED << closeReq, late, suspended, capture, closeCalls,
                    handlerFrame >>

\* line 519: the timer set with an action status fires
ActionTimer(d) ==
    /\ d \in timers
    /\ currentTime >= d
    /\ Commit([setLiveActionStatus(Cur, << >>) EXCEPT !.timers = timers \ {d}])
    /\ UNCHANGED << sessions, closeReq, late, suspended, e2e, capture,
                    closeCalls, handlerFrame >>

\* React renders App: the pending updates become the state the UI shows.
Render ==
    /\ fiber.lanes \/ renderedIsLive # isLive
    /\ renderedIsLive' = isLive
    /\ liveTranscript' =
          IF fiber.transcript.kind = "value"
          THEN [user |-> fiber.transcript.user,
                assistant |-> fiber.transcript.assistant]
          ELSE IF fiber.transcript.kind = "updater"
          THEN [liveTranscript EXCEPT !.user = liveTranscriptRef.user,
                                      !.assistant = liveTranscriptRef.assistant]
          ELSE liveTranscript
    /\ fiber' = [lanes |-> FALSE, transcript |-> NoUpdate]
    /\ UNCHANGED << isLive, liveStatus, liveActionStatus, currentPersonality,
                    currentMode, refVars, sessions, closeReq, late, suspended,
                    currentTime, nodes, timers, obsVars, captureVars,
                    codecVars, chatVars >>

\* ctx.currentTime advances
Tick ==
    /\ outputAudioContextRef
    /\ currentTime < MaxClock
    /\ currentTime' = currentTime + 1
    /\ UNCHANGED << reactVars, refVars, sessions, closeReq, late, suspended,
                    nodes, timers, fiber, obsVars, captureVars, codecVars,
                    chatVars >>

(***************************************************************************)
(* Initial state (App.tsx 112-125) and the specifications.                 *)
(***************************************************************************)
LiveInit ==
    /\ isLive = FALSE
    /\ liveStatus = "idle"
    /\ liveActionStatus = << >>
    /\ liveTranscript = EmptyTranscript
    /\ currentPersonality = "Nihara"
    /\ currentMode = "Chat"
    /\ liveSessionPromiseRef = NoSession
    /\ liveTranscriptRef = EmptyTranscript
    /\ outputAudioContextRef = FALSE
    /\ audioSourcesRef = {}
    /\ nextStartTimeRef = 0
    /\ sessions = [s \in SessionIds |-> "none"]
    /\ closeReq = {}
    /\ late = [s \in SessionIds |-> 0]
    /\ suspended = << >>
    /\ currentTime = 0
    /\ nodes = << >>
    /\ timers = {}
    /\ fiber = [lanes |-> FALSE, transcript |-> NoUpdate]
    /\ sent = << >>
    /\ calls = << >>
    /\ heard = EmptyTranscript
    /\ turnSnap = [valid |-> FALSE, user |-> << >>, assistant |-> << >>]
    /\ flushed = FALSE
    /\ run = NoRun
    /\ playedEnd = 0
    /\ e2e = [phase |-> "none", s2l |-> 0]
    /\ renderedIsLive = FALSE
    /\ capture = [s \in SessionIds |-> "none"]
    /\ drawing = {}
    /\ animationFrameRef = NoSession
    /\ closeCalls = [s \in SessionIds |-> 0]
    /\ realtimeInput = [s \in SessionIds |-> 0]

CodecIdle ==
    /\ samples = << >>
    /\ wire = << >>
    /\ decoded = [ok |-> FALSE, channels |-> << >>]
    /\ codecPc = "idle"
    /\ channelCount = 1

\* lines 100-101, with no message being sent
\* No saved chat, and no handler of the chat list in flight.
NoChat ==
    [id |-> 0, messages |-> << >>, summary |-> "", personality |-> "Nihara",
     mode |-> "Chat"]
IdlePc == [op |-> "idle", chatId |-> 0, found |-> FALSE, chat |-> NoChat]

ChatIdle ==
    /\ responseCalls = << >>
    /\ functionResponses = << >>
    /\ reminders = << >>
    /\ toast = "none"
    /\ isLoading = FALSE
    /\ assistantMessage = "none"
    /\ sendPc = "idle"
    /\ messages = << >>
    /\ assistantMessageId = 0
    /\ history = << >>
    /\ currentChatId = 0
    /\ chatPc = IdlePc
    /\ now = 0
    /\ bondLevel = 0
    /\ mood = "Neutral"
    /\ memories = << >>
    /\ analysing = 0
    /\ extracting = 0
    /\ extractedCount = 0

Init == LiveInit /\ CodecIdle /\ ChatIdle

(***************************************************************************)
(* The codec on a captured block: createBlobFromAudio on the way out, then *)
(* decode and decodeAudioData on the way in.                               *)
(***************************************************************************)
\* Samples of [-1, 1] as numerators over SampleDen: the endpoints, their
\* neighbours, zero and values between two quanta.  A captured block
\* (inputBuffer.getChannelData(0), line 482) is never empty.
SampleValues ==
    { -SampleDen, 1 - SampleDen, -SubDiv, -1, 0, 1, SubDiv + 1,
      SampleDen - 1, SampleDen }

SampleSeqs == UNION { [1..n -> SampleValues] : n \in 1..MaxSamples }

CodecInit ==
    /\ samples \in SampleSeqs
    /\ wire = << >>
    /\ decoded = [ok |-> FALSE, channels |-> << >>]
    /\ codecPc = "captured"
    /\ channelCount = 1

\* lines 54-64
Encode ==
    /\ codecPc = "captured"
    /\ wire' = createBlobFromAudio(samples)
    /\ codecPc' = "encoded"
    /\ UNCHANGED << liveVars, chatVars, samples, decoded, channelCount >>

\* lines 25-51
Decode ==
    /\ codecPc = "encoded"
    /\ decoded' = decodeAudioData(decode(wire), channelCount)
    /\ codecPc' = "decoded"
    /\ UNCHANGED << liveVars, chatVars, samples, wire, channelCount >>

(***************************************************************************)
(* Specifications: the events of a live session under the messages of      *)
(* playback, of tool calls and of transcription, and the codec.            *)
(***************************************************************************)
\* Playback: messages that carry audio, interruptions and turn boundaries.
SchedMessages ==
    { Message(i, << >>, << >>, << >>, c, a) :
        i \in BOOLEAN,
        c \in BOOLEAN,
        a \in { NoAudio, OneFrame, TwoFrames, OddBytes } }

Next ==
    \/ Click
    \/ \E s \in SessionIds : Connected(s)
    \/ \E s \in SessionIds, msg \in SchedMessages : onmessage(s, msg)
    \/ \E n \in 1..MaxNodes : Ended(n)
    \/ \E s \in SessionIds : onerror(s)
    \/ \E s \in SessionIds : onclose(s)
    \/ Render
    \/ Tick

Spec == Init /\ [][Next]_vars

\* Tool calls: batches of one or two function calls.
Calls ==
    { FunctionCall("changeMode", AIDiary),
      FunctionCall("changeMode", "InvalidValue"),
      FunctionCall("changeMode", NoArgs),
      FunctionCall("changePersonality", "Mentor"),
      FunctionCall("changePersonality", "InvalidValue"),
      FunctionCall("setReminder", NoArgs) }

Batches ==
    { << c >> : c \in Calls } \cup { << c, d >> : c \in Calls, d \in Calls }

ToolMessages ==
    { Message(FALSE, t, << >>, << >>, FALSE, NoAudio) : t \in Batches }

NextTools ==
    \/ Click
    \/ \E s \in SessionIds : Connected(s)
    \/ \E s \in SessionIds, msg \in ToolMessages : onmessage(s, msg)
    \/ \E s \in SessionIds : onerror(s)
    \/ \E s \in SessionIds : onclose(s)
    \/ \E d \in 0..(MaxClock + ActionDelay) : ActionTimer(d)
    \/ Render
    \/ Tick

SpecTools == Init /\ [][NextTools]_vars

\* Transcription: fragments of either role, and turn boundaries.
Fragments == { << >>, << "Hel" >>, << "lo " >> }

TranscriptMessages ==
    { Message(FALSE, << >>, o, u, c, NoAudio) :
        o \in Fragments,
        u \in { << >>, << "Hi" >> },
        c \in BOOLEAN }

NextTranscript ==
    \/ Click
    \/ \E s \in SessionIds : Connected(s)
    \/ \E s \in SessionIds, msg \in TranscriptMessages : onmessage(s, msg)
    \/ \E s \in SessionIds : onerror(s)
    \/ \E s \in SessionIds : onclose(s)
    \/ Render

SpecTranscript == Init /\ [][NextTranscript]_vars

NextCodec == Encode \/ Decode

InitCodec == LiveInit /\ CodecInit /\ ChatIdle

SpecCodec == InitCodec /\ [][NextCodec]_vars

(***************************************************************************)
(* decodeAudioData on inbound bytes of any length (lines 34-51): the       *)
(* payload of a server message is whatever the server sent.                *)
(***************************************************************************)
MaxBytes == 3

ByteValues == { 0, 1, 128, 255 }

\* A payload that reaches line 541 is a non-empty string (line 539).
InboundBytes == UNION { [1..n -> ByteValues] : n \in 1..MaxBytes }

InboundInit ==
    /\ samples = << >>
    /\ \E bytes \in InboundBytes : wire = encode(bytes)
    /\ decoded = [ok |-> FALSE, channels |-> << >>]
    /\ codecPc = "encoded"
    /\ channelCount \in { 1, 2 }

NextInbound == Decode

InitInbound == LiveInit /\ InboundInit /\ ChatIdle

SpecInbound == InitInbound /\ [][NextInbound]_vars

(***************************************************************************)
(* Microphone capture and the metering loop (onopen, lines 461-491).       *)
(* Connected runs onopen up to its await of getUserMedia.                  *)
(***************************************************************************)
MaxBlocks == 2

\* lines 463-490: getUserMedia settles.  Granted, onopen goes on: it wires
\* the audio graph and calls draw() once (line 479), which requests the
\* first frame; denied, onopen ends there.
MicResolved(s) ==
    /\ capture[s] = "asking"
    /\ \E granted \in BOOLEAN :
        IF granted
        THEN /\ capture' = [capture EXCEPT ![s] = "on"]
             /\ drawing' = drawing \cup {s}
             /\ animationFrameRef' = s
             /\ \E changed \in BOOLEAN : fiber' = Schedule(fiber, changed)
        ELSE /\ capture' = [capture EXCEPT ![s] = "denied"]
             /\ UNCHANGED << drawing, animationFrameRef, fiber >>
    /\ UNCHANGED << isLive, liveStatus, liveActionStatus, liveTranscript,
                    currentPersonality, currentMode, renderedIsLive, refVars,
                    sessions, closeReq, late, suspended, currentTime, nodes,
                    timers, obsVars, closeCalls, realtimeInput, codecVars,
                    chatVars >>

\* lines 472-478: the frame requested by the loop of session s arrives; draw
\* requests the next one and publishes the mic level.
draw(s) ==
    /\ s \in drawing
    /\ animationFrameRef' = s
    /\ \E changed \in BOOLEAN : fiber' = Schedule(fiber, changed)
    /\ UNCHANGED << isLive, liveStatus, liveActionStatus, liveTranscript,
                    currentPersonality, currentMode, renderedIsLive, refVars,
                    sessions, closeReq, late, suspended, currentTime, nodes,
                    timers, obsVars, capture, drawing, closeCalls,
                    realtimeInput, codecVars, chatVars >>

\* lines 481-487: the graph of session s hands over a block of input; it is
\* sent to the session liveSessionPromiseRef holds, if any.
onaudioprocess(s) ==
    /\ capture[s] = "on"
    /\ liveSessionPromiseRef # NoSession
    /\ realtimeInput[liveSessionPromiseRef] < MaxBlocks
    /\ realtimeInput' = [realtimeInput EXCEPT ![liveSessionPromiseRef] = @ + 1]
    /\ UNCHANGED << reactVars, refVars, envVars, obsVars, capture, drawing,
                    animationFrameRef, closeCalls, codecVars, chatVars >>

\* Capture: clicks on the toggle, the microphone, the loop and the graph.
NextCapture ==
    \/ Click
    \/ \E s \in SessionIds : Connected(s)
    \/ \E s \in SessionIds : MicResolved(s)
    \/ \E s \in SessionIds : draw(s)
    \/ \E s \in SessionIds : onaudioprocess(s)
    \/ \E s \in SessionIds : onerror(s)
    \/ \E s \in SessionIds : onclose(s)
    \/ Render

SpecCapture == Init /\ [][NextCapture]_vars

(***************************************************************************)
(* Sessions: calls of handleToggleLiveMode that may come before React has  *)
(* rendered the isLive of the call before, and the events of the sessions. *)
(***************************************************************************)
SessionMessages ==
    { Message(FALSE, << FunctionCall("changeMode", "DeepResearch") >>,
              << >>, << >>, FALSE, NoAudio),
      Message(FALSE, << >>, << "Hel" >>, << >>, FALSE, NoAudio) }

NextSessions ==
    \/ Trigger
    \/ \E s \in SessionIds : Connected(s)
    \/ \E s \in SessionIds, msg \in SessionMessages : onmessage(s, msg)
    \/ \E s \in SessionIds : onerror(s)
    \/ \E s \in SessionIds : onclose(s)
    \/ \E d \in 0..(MaxClock + ActionDelay) : ActionTimer(d)
    \/ Tick
    \/ Render

SpecSessions == Init /\ [][NextSessions]_vars

(***************************************************************************)
(* Live captions: fragments, turn boundaries and tool calls.               *)
(***************************************************************************)
CaptionMessages ==
    { Message(FALSE, << >>, o, u, c, NoAudio) :
        o \in { << >>, << "Hel" >> },
        u \in { << >>, << "Hi" >> },
        c \in BOOLEAN }
    \cup
    { Message(FALSE, << fc >>, << >>, << >>, FALSE, NoAudio) :
        fc \in { FunctionCall("changeMode", NoArgs),
                 FunctionCall("setReminder", NoArgs) } }

NextCaptions ==
    \/ Click
    \/ \E s \in SessionIds : Connected(s)
    \/ \E s \in SessionIds, msg \in CaptionMessages : onmessage(s, msg)
    \/ \E s \in SessionIds : onerror(s)
    \/ \E s \in SessionIds : onclose(s)
    \/ Render

SpecCaptions == Init /\ [][NextCaptions]_vars

(***************************************************************************)
(* Chat with the reminder tool: handleSendMessage on a text that holds a   *)
(* reminder keyword (lines 351-425) and addReminder (lines 345-349).       *)
(***************************************************************************)
MaxReminders == 2
MaxResponseCalls == 2

\* Number values: a time in milliseconds, or NaN.
NaN == [nan |-> TRUE, ms |-> 0]
Time(ms) == [nan |-> FALSE, ms |-> ms]

\* new Date(dateTime).getTime(): the time of a date string that parses, NaN
\* for every other value (undefined included).
DateGetTime(dateTime) ==
    IF dateTime = "1970-01-01T00:00:01Z" THEN Time(1000)
    ELSE IF dateTime = "1970-01-02T00:00:00Z" THEN Time(86400000)
    ELSE NaN

\* new Date(value) throws for no value that JSON arguments can hold.
NewDateThrows(dateTime) == FALSE

DateTimes ==
    { "1970-01-01T00:00:01Z", "1970-01-02T00:00:00Z", "tomorrow at nine", "" }

\* The function calls a response can carry: setReminder with and without
\* args, and a call of another name.
ChatCall(name, hasArgs, dateTime) ==
    [name |-> name, hasArgs |-> hasArgs, reminderText |-> "call mom",
     dateTime |-> dateTime]

ResponseCalls ==
    { ChatCall("setReminder", TRUE, d) : d \in DateTimes }
    \cup { ChatCall("setReminder", FALSE, ""), ChatCall("changeMode", TRUE, "") }
    \cup { [ChatCall("setReminder", TRUE, "1970-01-01T00:00:01Z")
               EXCEPT !.reminderText = "buy milk"] }

ResponseCallSeqs ==
    UNION { [1..n -> ResponseCalls] : n \in 0..MaxResponseCalls }

Ok == "OK, reminder is set."
Failed == "Failed to parse date."

FunctionResponse(result) == [name |-> "setReminder", result |-> result]

\* lines 345-349
addReminder(st, text, dueTime) ==
    [st EXCEPT !.reminders = Append(st.reminders,
                                    [id |-> now, text |-> text,
                                     dueTime |-> dueTime]),
               !.toast = "Reminder set!"]

\* lines 383-394: one iteration of the loop; the destructuring of call.args
\* (line 385) is outside the try
SetReminderCall(st, call) ==
    IF call.name # "setReminder" THEN st
    ELSE IF ~call.hasArgs THEN [st EXCEPT !.threw = TRUE]
    ELSE IF NewDateThrows(call.dateTime)
    THEN [st EXCEPT !.responses = Append(st.responses,
                                         FunctionResponse(Failed))]
    ELSE LET st1 == addReminder(st, call.reminderText,
                                DateGetTime(call.dateTime))
         IN  [st1 EXCEPT !.responses = Append(st1.responses,
                                              FunctionResponse(Ok))]

\* lines 381-395
RECURSIVE ReminderCalls(_, _)
ReminderCalls(st, fcs) ==
    IF st.threw \/ fcs = << >> THEN st
    ELSE ReminderCalls(SetReminderCall(st, Head(fcs)), Tail(fcs))

(***************************************************************************)
(* The messages of the chat on screen and the saved chats (lines 279-309). *)
(***************************************************************************)
MaxMessages == 2

UserTexts == { "hello", "remind me" }

\* /remind|reminder/i.test(text)
hasReminderKeyword(text) == text = "remind me"

ReplyText == "reply"
ErrorText == "Sorry, I encountered an error."

\* msg.text + chunk, for the chunks of a streamed reply
Concat(text, chunk) == IF text = "" THEN chunk ELSE "chunkchunk"

\* lines 353 and 357
userMessage(text) ==
    [id |-> now, sender |-> "user", text |-> text, isTyping |-> FALSE]
assistantTypingMessage ==
    [id |-> now + 1, sender |-> "assistant", text |-> "", isTyping |-> TRUE]

\* prev.map(m => m.id === id ? { ...m, text, isTyping: false } : m)
SetText(prev, id, text) ==
    [i \in DOMAIN prev |->
        IF prev[i].id = id
        THEN [prev[i] EXCEPT !.text = text, !.isTyping = FALSE]
        ELSE prev[i]]

\* lines 406-411: the callback of sendMessageStream
AddChunk(prev, id, chunk) ==
    [i \in DOMAIN prev |->
        IF prev[i].id = id
        THEN [prev[i] EXCEPT !.text = Concat(prev[i].text, chunk),
                             !.isTyping = FALSE]
        ELSE prev[i]]

DefaultSummary == "hello..."
Summarised == "A greeting"

\* summary.endsWith('...')
EndsWithDots(summary) == summary = DefaultSummary

\* prev.findIndex(h => h.id === id), counted from 1; 0 when there is none
findIndex(prev, id) ==
    IF \E i \in DOMAIN prev : prev[i].id = id
    THEN CHOOSE i \in DOMAIN prev :
            /\ prev[i].id = id
            /\ \A j \in DOMAIN prev : prev[j].id = id => i <= j
    ELSE 0

\* lines 281-293: the summary is kept once it is no default summary
newHistoryItem(h, msgs, id, personality, mode) ==
    LET existingIndex == findIndex(h, id)
        summary == IF /\ existingIndex > 0
                      /\ h[existingIndex].summary # ""
                      /\ ~EndsWithDots(h[existingIndex].summary)
                   THEN h[existingIndex].summary
                   ELSE DefaultSummary
    IN  [id |-> id, messages |-> msgs, summary |-> summary,
         personality |-> personality, mode |-> mode]

\* the updater of lines 294-302 without the search for the id
UpsertAppends(prev, item) == Append(prev, item)

\* lines 294-302: the updater of setHistory
Upsert(prev, item) ==
    LET existingIndex == findIndex(prev, item.id)
    IN  IF existingIndex > 0
        THEN [prev EXCEPT ![existingIndex] = item]
        ELSE Append(prev, item)

\* lines 279-309: saveCurrentChat, which the effect of line 307 runs after
\* every render that changed its dependencies; currentChatId is a
\* non-empty string from the mount on
saveCurrentChat(h, msgs, id, personality, mode) ==
    IF Len(msgs) > 0
    THEN Upsert(h, newHistoryItem(h, msgs, id, personality, mode))
    ELSE h

\* The render after an update of the messages, and its save.
setMessages(msgs) ==
    /\ messages' = msgs
    /\ history' = saveCurrentChat(history, msgs, currentChatId,
                                  currentPersonality, currentMode)

\* lines 351-380 and 403-405: up to the await of sendMessageWithSearch, of
\* sendMessage or of sendMessageStream.  A message is sent at a later
\* millisecond than the messages on screen were.
handleSendMessage(text) ==
    /\ sendPc = "idle"
    /\ Len(messages) + 2 <= MaxMessages
    /\ \A i \in DOMAIN messages : messages[i].id < now
    /\ isLoading' = TRUE
    /\ setMessages(messages \o << userMessage(text), assistantTypingMessage >>)
    /\ assistantMessageId' = now + 1
    /\ assistantMessage' = "typing"
    /\ responseCalls' = << >>
    /\ functionResponses' = << >>
    /\ sendPc' = IF currentMode = "DeepResearch" THEN "search"
                 ELSE IF hasReminderKeyword(text) THEN "sent"
                 ELSE "stream"
    /\ UNCHANGED << liveVars, codecVars, bondVars, currentChatId, chatPc,
                    reminders, toast, now >>

\* lines 401, 417-423: the call ends and the assistant message of its id
\* gets the text
Settled(text, shown) ==
    /\ setMessages(SetText(messages, assistantMessageId, text))
    /\ assistantMessage' = shown
    /\ isLoading' = FALSE
    /\ sendPc' = "idle"

\* lines 381-400: the response arrives with its function calls
Response(fcs) ==
    LET st == ReminderCalls([reminders |-> reminders, toast |-> toast,
                             responses |-> << >>, threw |-> FALSE], fcs)
    IN  /\ sendPc = "sent"
        /\ Len(reminders) + Len(fcs) <= MaxReminders
        /\ responseCalls' = fcs
        /\ functionResponses' = st.responses
        /\ reminders' = st.reminders
        /\ toast' = st.toast
        /\ IF st.threw
           THEN Settled(ErrorText, "error")
           ELSE IF fcs = << >>
           THEN Settled(ReplyText, "text")
           ELSE /\ sendPc' = "responded"
                /\ UNCHANGED << assistantMessage, isLoading, messages,
                                history >>
        /\ UNCHANGED << liveVars, codecVars, bondVars, assistantMessageId,
                        currentChatId, chatPc, now >>

\* lines 396-401 and 417-423: sendMessageWithParts settles
FinalResponse ==
    /\ sendPc = "responded"
    /\ \E ok \in BOOLEAN :
          IF ok THEN Settled(ReplyText, "text")
          ELSE Settled(ErrorText, "error")
    /\ UNCHANGED << liveVars, codecVars, bondVars, assistantMessageId,
                    currentChatId, chatPc, responseCalls, functionResponses,
                    reminders, toast, now >>

\* lines 417-423: sendMessage rejects
SendFails ==
    /\ sendPc = "sent"
    /\ Settled(ErrorText, "error")
    /\ UNCHANGED << liveVars, codecVars, bondVars, assistantMessageId,
                    currentChatId, chatPc, responseCalls, functionResponses,
                    reminders, toast, now >>

\* lines 369-375 and 417-423: sendMessageWithSearch settles
SearchResponse(ok) ==
    /\ sendPc = "search"
    /\ IF ok THEN Settled(ReplyText, "text")
       ELSE Settled(ErrorText, "error")
    /\ UNCHANGED << liveVars, codecVars, bondVars, assistantMessageId,
                    currentChatId, chatPc, responseCalls, functionResponses,
                    reminders, toast, now >>

\* The assistant message of the call in flight, if it is on screen.
Streamed ==
    { messages[i].text : i \in { j \in DOMAIN messages :
                                    messages[j].id = assistantMessageId } }

\* lines 404-412: a chunk of the stream arrives
StreamChunk ==
    /\ sendPc = "stream"
    /\ \A text \in Streamed : text # "chunkchunk"
    /\ setMessages(AddChunk(messages, assistantMessageId, "chunk"))
    /\ assistantMessage' = "text"
    /\ UNCHANGED << liveVars, codecVars, bondVars, assistantMessageId,
                    currentChatId, chatPc, responseCalls, functionResponses,
                    isLoading, sendPc, reminders, toast, now >>

\* lines 404-423: sendMessageStream settles; the text it resolves with is
\* not written to the message
StreamEnd(ok) ==
    /\ sendPc = "stream"
    /\ IF ok
       THEN /\ isLoading' = FALSE
            /\ sendPc' = "idle"
            /\ UNCHANGED << messages, history, assistantMessage >>
       ELSE Settled(ErrorText, "error")
    /\ UNCHANGED << liveVars, codecVars, bondVars, assistantMessageId,
                    currentChatId, chatPc, responseCalls, functionResponses,
                    reminders, toast, now >>

\* lines 231-236: the toast goes after a while
ToastTimer ==
    /\ toast # "none"
    /\ toast' = "none"
    /\ UNCHANGED << liveVars, codecVars, bondVars, historyVars, sendVars, reminders, now >>

\* The instants of Date.now() that tell the due times apart.
Instants == { 0, 1000, 86400000, 86401000 }

\* time passes, up to the next instant
WallTick ==
    /\ \E t \in Instants :
          /\ t > now
          /\ \A u \in Instants : u > now => t <= u
          /\ now' = t
    /\ UNCHANGED << liveVars, codecVars, bondVars, historyVars, sendVars, reminders, toast >>

\* `Reminder: ${reminder.text}`
ReminderToast(text) ==
    IF text = "call mom" THEN "Reminder: call mom" ELSE "Reminder: buy milk"

\* now >= r.dueTime, false for NaN
IsDue(r) == ~r.dueTime.nan /\ now >= r.dueTime.ms

\* lines 217-229: the interval fires, with the reminders of the last render
ReminderCheck ==
    LET dueReminders == SelectSeq(reminders, IsDue)
    IN  /\ IF Len(dueReminders) > 0
           THEN LET reminder == dueReminders[1]
                    Keep(r) == r.id # reminder.id
                IN  /\ toast' = ReminderToast(reminder.text)
                    /\ reminders' = SelectSeq(reminders, Keep)
           ELSE UNCHANGED << reminders, toast >>
        /\ UNCHANGED << liveVars, codecVars, bondVars, historyVars, sendVars, now >>

NextReminder ==
    \/ handleSendMessage("remind me")
    \/ \E fcs \in ResponseCallSeqs : Response(fcs)
    \/ FinalResponse
    \/ SendFails
    \/ ToastTimer
    \/ WallTick
    \/ ReminderCheck

SpecReminder == Init /\ [][NextReminder]_vars

(***************************************************************************)
(* processAiInteraction (lines 334-343) and the mood derived from the bond *)
(* level (lines 239-246).                                                  *)
(***************************************************************************)
MaxBond == 3
MaxInFlight == 2
MaxExtracted == 22
MemoryCap == 20

Sentiments == { "positive", "negative", "neutral" }

\* the update of the bond level without Math.max
BondAfterUnclamped(b, sentiment) ==
    IF sentiment = "positive" THEN b + 1
    ELSE IF sentiment = "negative" THEN b - 1
    ELSE b

\* lines 336-337
BondAfter(b, sentiment) ==
    IF sentiment = "positive" THEN b + 1
    ELSE IF sentiment = "negative" THEN Max(0, b - 1)
    ELSE b

\* lines 240-245
MoodOf(b) ==
    IF b > 5 THEN "Joyful"
    ELSE IF b > 0 THEN "Content"
    ELSE IF b < -5 THEN "Concerned"
    ELSE IF b < 0 THEN "Pensive"
    ELSE "Neutral"

\* the list kept whole
SliceNothing(list, n) == list

\* array.slice(-n): the last n entries
SliceLast(list, n) ==
    IF Len(list) <= n THEN list
    ELSE SubSeq(list, Len(list) - n + 1, Len(list))

\* A memory is modelled by its rank among the memories extracted.
NextMemory == extractedCount + 1

\* lines 334-335: an interaction starts and awaits analyzeSentiment
processAiInteraction ==
    /\ analysing + extracting < MaxInFlight
    /\ analysing' = analysing + 1
    /\ UNCHANGED << liveVars, codecVars, sendVars, historyVars, reminders, toast, now,
                    bondLevel, mood, memories, extracting, extractedCount >>

\* lines 335-339: analyzeSentiment resolves, the bond level is updated and
\* the interaction awaits extractMemory
Sentiment(sentiment) ==
    /\ analysing > 0
    /\ sentiment = "positive" => bondLevel < MaxBond
    /\ bondLevel' = BondAfter(bondLevel, sentiment)
    /\ analysing' = analysing - 1
    /\ extracting' = extracting + 1
    /\ UNCHANGED << liveVars, codecVars, sendVars, historyVars, reminders, toast, now,
                    mood, memories, extractedCount >>

\* line 335: analyzeSentiment rejects and the interaction ends
SentimentFails ==
    /\ analysing > 0
    /\ analysing' = analysing - 1
    /\ UNCHANGED << liveVars, codecVars, sendVars, historyVars, reminders, toast, now,
                    bondLevel, mood, memories, extracting, extractedCount >>

\* lines 339-342: extractMemory resolves, with a memory or with none
Memory(extracted) ==
    /\ extracting > 0
    /\ extracted => NextMemory <= MaxExtracted
    /\ extractedCount' = IF extracted THEN extractedCount + 1
                         ELSE extractedCount
    /\ memories' = IF extracted
                   THEN SliceLast(Append(memories, NextMemory), MemoryCap)
                   ELSE memories
    /\ extracting' = extracting - 1
    /\ UNCHANGED << liveVars, codecVars, sendVars, historyVars, reminders, toast, now,
                    bondLevel, mood, analysing >>

\* lines 239-246: the effect that follows a change of the bond level
MoodEffect ==
    /\ mood # MoodOf(bondLevel)
    /\ mood' = MoodOf(bondLevel)
    /\ UNCHANGED << liveVars, codecVars, sendVars, historyVars, reminders, toast, now,
                    bondLevel, memories, analysing, extracting,
                    extractedCount >>

NextBond ==
    \/ processAiInteraction
    \/ \E sentiment \in Sentiments : Sentiment(sentiment)
    \/ SentimentFails
    \/ \E extracted \in BOOLEAN : Memory(extracted)
    \/ MoodEffect

SpecBond == Init /\ [][NextBond]_vars


(***************************************************************************)
(* The chat list: updateCurrentChatSummary, handleLoadChat, handleNewChat  *)
(* and the mode change of the sidebar (lines 269-277, 312-332, 618).       *)
(***************************************************************************)
MaxChats == 2

Find(h, id) == IF findIndex(h, id) > 0 THEN h[findIndex(h, id)] ELSE NoChat

\* lines 270-273: whether updateCurrentChatSummary awaits summarizeChat
Summarises ==
    /\ Len(messages) >= 2
    /\ \/ findIndex(history, currentChatId) = 0
       \/ EndsWithDots(Find(history, currentChatId).summary)
       \/ Find(history, currentChatId).summary = ""

\* line 275: the updater of setHistory
SetSummary(prev, id, newSummary) ==
    [i \in DOMAIN prev |->
        IF prev[i].id = id THEN [prev[i] EXCEPT !.summary = newSummary]
        ELSE prev[i]]

rest == << isLive, liveStatus, liveActionStatus, liveTranscript,
           renderedIsLive, refVars, envVars, obsVars, captureVars, codecVars,
           bondVars, sendPc, responseCalls, functionResponses, isLoading,
           assistantMessage, assistantMessageId, reminders, toast, now >>

\* lines 326-331, 314-322 and 618: what the handler does once
\* updateCurrentChatSummary is over, h being the saved chats by then, and
\* the save of the render that follows
Continue(pc, h) ==
    /\ chatPc' = IdlePc
    /\ IF pc.op = "new"
       THEN /\ messages' = << >>
            /\ currentChatId' = now
            /\ history' = saveCurrentChat(h, << >>, now, currentPersonality,
                                          currentMode)
            /\ UNCHANGED << currentPersonality, currentMode >>
       ELSE IF pc.op = "load"
       THEN IF pc.found
            THEN /\ messages' = pc.chat.messages
                 /\ currentPersonality' = pc.chat.personality
                 /\ currentMode' = pc.chat.mode
                 /\ currentChatId' = pc.chat.id
                 /\ history' = saveCurrentChat(h, pc.chat.messages, pc.chat.id,
                                               pc.chat.personality,
                                               pc.chat.mode)
            ELSE /\ history' = h
                 /\ UNCHANGED << messages, currentPersonality, currentMode,
                                 currentChatId >>
       ELSE /\ currentMode' = pc.chat.mode
            /\ history' = saveCurrentChat(h, messages, currentChatId,
                                          currentPersonality, pc.chat.mode)
            /\ UNCHANGED << messages, currentPersonality, currentChatId >>
    /\ UNCHANGED rest

\* The call of a handler: it goes on at once when there is nothing to
\* summarise, and awaits summarizeChat otherwise.
Call(pc) ==
    /\ chatPc.op = "idle"
    /\ IF Summarises
       THEN /\ chatPc' = pc
            /\ UNCHANGED << messages, history, currentChatId,
                            currentPersonality, currentMode, rest >>
       ELSE Continue(pc, history)

\* lines 325-332; the click comes at a later millisecond than the ids in use
handleNewChat ==
    /\ Len(history) < MaxChats
    /\ currentChatId < now
    /\ \A i \in DOMAIN history : history[i].id < now
    /\ Call([op |-> "new", chatId |-> currentChatId, found |-> FALSE,
             chat |-> NoChat])

\* lines 312-323: the chat is looked up in the history of the render that
\* made the handler
handleLoadChat(id) ==
    Call([op |-> "load", chatId |-> currentChatId,
          found |-> findIndex(history, id) > 0, chat |-> Find(history, id)])

\* line 618
onModeChange(mode) ==
    Call([op |-> "mode", chatId |-> currentChatId, found |-> FALSE,
          chat |-> [NoChat EXCEPT !.mode = mode]])

\* lines 274-275: summarizeChat resolves
SummaryArrives ==
    /\ chatPc.op # "idle"
    /\ Continue(chatPc, SetSummary(history, chatPc.chatId, Summarised))

\* line 274: summarizeChat rejects, and so does the handler
SummaryFails ==
    /\ chatPc.op # "idle"
    /\ chatPc' = IdlePc
    /\ UNCHANGED << messages, history, currentChatId, currentPersonality,
                    currentMode, rest >>

HistoryCalls ==
    { << >>, << ChatCall("changeMode", TRUE, "") >> }

ChatIds == { history[i].id : i \in DOMAIN history }

NextHistory ==
    \/ \E text \in UserTexts : handleSendMessage(text)
    \/ \E fcs \in HistoryCalls : Response(fcs)
    \/ FinalResponse
    \/ SendFails
    \/ \E ok \in BOOLEAN : SearchResponse(ok)
    \/ StreamChunk
    \/ \E ok \in BOOLEAN : StreamEnd(ok)
    \/ handleNewChat
    \/ \E id \in ChatIds : handleLoadChat(id)
    \/ \E mode \in { "Chat", "DeepResearch" } : onModeChange(mode)
    \/ SummaryArrives
    \/ SummaryFails
    \/ WallTick

SpecHistory == Init /\ [][NextHistory]_vars

(***************************************************************************)
(* Playback scheduler (specification Spec).                                *)
(***************************************************************************)
\* C1: in a run of chunks delivered back-to-back with no interruption, each
\* chunk starts at the start of the run's first chunk plus the sum of the
\* durations of the chunks before it; equivalently, with the chunk's own
\* duration added on both sides, the last chunk ends at the first start plus
\* the sum of all the durations of the run.
C1_SchedulerOrdering ==
    run.n >= 1 => run.lastEnd = run.first + run.sum

\* a run of RunCap chunks was scheduled
C1_Witness ==
    /\ run.n = RunCap
    /\ run.sum >= RunCap
    /\ nextStartTimeRef = run.lastEnd

\* the play intervals of the active set are pairwise disjoint
NoOverlapActive ==
    \A i \in audioSourcesRef : \A j \in audioSourcesRef :
        i # j => \/ EndOf(nodes[i]) <= nodes[j].start
                 \/ EndOf(nodes[j]) <= nodes[i].start

\* a chunk scheduled by this step starts at or after the end of the chunks
\* that have ended (playedEnd) and of those alive that no flush has stopped
NewChunkAfterEarlier ==
    \A n \in (DOMAIN nodes') \ (DOMAIN nodes) :
        /\ nodes'[n].start >= playedEnd
        /\ \A m \in DOMAIN nodes :
              ~nodes'[m].stopped => nodes'[n].start >= EndOf(nodes'[m])

\* C2: no two chunks of the active set overlap, and a chunk that has just
\* been scheduled starts no earlier than the end of any chunk scheduled
\* before it that a flush has not stopped, whether that chunk has already
\* ended or is still alive.
C2_NoOverlap ==
    [][NoOverlapActive' /\ NewChunkAfterEarlier]_vars

\* two chunks are queued after a chunk that has played to its end
C2_Witness ==
    /\ Cardinality(audioSourcesRef) = 2
    /\ playedEnd > 0
    /\ \A n \in audioSourcesRef : nodes[n].start >= playedEnd

\* what a flush leaves: the sources that were active are stopped, the active
\* set is empty, the next start time is 0 and the status is listening
Flushed ==
    /\ \A n \in audioSourcesRef : n \in DOMAIN nodes' /\ nodes'[n].stopped
    /\ audioSourcesRef' = {}
    /\ nextStartTimeRef' = 0
    /\ liveStatus' = "listening"

\* C3 as stated: once a message with the interruption flag is handled, the
\* flush holds, whatever else the message carries.
C3_FlushOnInterrupt ==
    [][\A s \in SessionIds : \A msg \in SchedMessages :
          (msg.interrupted /\ onmessage(s, msg)) => Flushed]_vars

\* C3, amended: once a message with the interruption flag and no audio
\* payload is handled, the sources that were active are stopped, the active
\* set is empty, the next start time is 0 and the status is listening.
C3_FlushOnInterruptNoAudio ==
    [][\A s \in SessionIds : \A msg \in SchedMessages :
          (msg.interrupted /\ msg.audio = NoAudio /\ onmessage(s, msg))
             => Flushed]_vars

\* a backlog of two chunks was flushed
C3_Witness ==
    /\ flushed
    /\ Cardinality({ n \in DOMAIN nodes : nodes[n].stopped }) = 2
    /\ audioSourcesRef = {}
    /\ nextStartTimeRef = 0
    /\ liveStatus = "listening"

\* the step handles a message that carries the interruption flag and audio
InterruptedNow ==
    \E s \in SessionIds : \E msg \in SchedMessages :
        msg.interrupted /\ msg.audio # NoAudio /\ onmessage(s, msg)

\* C4: the first chunk scheduled after an interruption, by the message that
\* carries the interruption or by a later one, starts at the current time
\* of the output clock, whatever the backlog was.
C4_FlushThenNow ==
    [][\A n \in (DOMAIN nodes') \ (DOMAIN nodes) :
          (flushed \/ InterruptedNow) => nodes'[n].start = currentTime]_vars

\* a chunk was scheduled after the flush of a chunk that is not over yet
C4_Witness ==
    /\ ~flushed
    /\ currentTime > 0
    /\ run.n = 1
    /\ \E n \in DOMAIN nodes : \E m \in audioSourcesRef :
          /\ nodes[n].stopped
          /\ nodes[m].start = currentTime
          /\ nextStartTimeRef = EndOf(nodes[m])

\* C5: in the scenario "open, chunks back-to-back, turn complete while audio
\* is pending" the status stays speaking, with no speaking -> listening
\* transition, as long as a chunk is in the active set, and makes its one
\* transition when the last one has ended, at or after the end of the last
\* chunk scheduled.
C5_EndToEnd ==
    /\ e2e.phase = "chunks" =>
          /\ e2e.s2l = 0
          /\ liveStatus = "speaking"
    /\ e2e.phase = "turned" =>
          IF audioSourcesRef # {}
          THEN /\ e2e.s2l = 0
               /\ liveStatus = "speaking"
          ELSE /\ e2e.s2l = 1
               /\ liveStatus = "listening"
               /\ currentTime >= run.lastEnd

\* three chunks, the turn boundary, and the last chunk has ended
C5_Witness ==
    /\ e2e.phase = "turned"
    /\ e2e.s2l = 1
    /\ run.n = 3
    /\ audioSourcesRef = {}

(***************************************************************************)
(* Transcript aggregator (specification SpecTranscript).                   *)
(***************************************************************************)
\* C6: once turn-complete is handled both accumulators are empty, and once
\* React has rendered the update the UI shows, for each role, the
\* concatenation in arrival order of the fragments received since the last
\* turn boundary.
C6_TurnAggregation ==
    turnSnap.valid =>
        /\ liveTranscriptRef = EmptyTranscript
        /\ ~fiber.lanes =>
              liveTranscript = [user |-> turnSnap.user,
                                assistant |-> turnSnap.assistant]

(***************************************************************************)
(* Tool-call dispatcher (specification SpecTools).                         *)
(***************************************************************************)
\* the acknowledgements of the i-th function call received
Acks(i) ==
    { j \in 1..Len(sent) : sent[j].id = i /\ sent[j].name = calls[i].name }

\* C7: when no handler is waiting for the session, every function call
\* received so far has exactly one acknowledgement with its id and name.
C7_ExactlyOneAck ==
    suspended = << >> =>
        \A i \in 1..Len(calls) : Cardinality(Acks(i)) = 1

\* a changeMode or changePersonality call whose argument is a value outside
\* the enumeration
InvalidArg(fc) ==
    /\ fc.arg # NoArgs
    /\ \/ fc.name = "changeMode" /\ ~IsAppMode(fc.arg)
       \/ fc.name = "changePersonality" /\ ~IsPersonality(fc.arg)

\* C8: handling a batch of one changeMode or changePersonality call whose
\* argument is outside the enumeration sends exactly one acknowledgement,
\* with the call's id and name and the result "ok", and leaves the mode, the
\* personality and the action status as they were.
C8_InvalidArgument ==
    [][\A s \in SessionIds : \A msg \in ToolMessages :
          (/\ Len(msg.toolCall) = 1
           /\ InvalidArg(msg.toolCall[1])
           /\ onmessage(s, msg)
           /\ suspended' = suspended)
          => /\ Len(sent') = Len(sent) + 1
             /\ sent'[Len(sent')].id = Len(calls')
             /\ sent'[Len(sent')].name = msg.toolCall[1].name
             /\ sent'[Len(sent')].result = "ok"
             /\ currentMode' = currentMode
             /\ currentPersonality' = currentPersonality
             /\ liveActionStatus' = liveActionStatus]_vars

\* C9: no step sets the application mode to the diary mode.
C9_NeverDiary ==
    [][currentMode' = AIDiary => currentMode = AIDiary]_vars

(***************************************************************************)
(* Codec round trip (specification SpecCodec).                             *)
(***************************************************************************)
Abs(x) == IF x >= 0 THEN x ELSE -x

\* C10: the decoded block has one channel of the length of the captured
\* block, and each of its samples is within 1/32768 (SubDiv / SampleDen) of
\* the captured one.
C10_RoundTrip ==
    codecPc = "decoded" =>
        /\ decoded.ok
        /\ Len(decoded.channels) = 1
        /\ Len(decoded.channels[1]) = Len(samples)
        /\ \A i \in 1..Len(samples) :
              Abs(decoded.channels[1][i] - samples[i]) <= SubDiv

(***************************************************************************)
(* Inbound audio of a malformed length.                                    *)
(***************************************************************************)
\* C11: inbound bytes whose count is not a multiple of channelCount * 2 are
\* decoded without a failure, to floor(count / (channelCount * 2)) frames
\* that hold the complete frames; the trailing partial frame is dropped.
C11_MalformedLengthTolerated ==
    LET data == decode(wire)
        frames == Len(data) \div (channelCount * 2)
    IN  (codecPc = "decoded" /\ Len(data) % (channelCount * 2) # 0) =>
            /\ decoded.ok
            /\ Len(decoded.channels) = channelCount
            /\ \A channel \in 1..channelCount :
                  /\ Len(decoded.channels[channel]) = frames
                  /\ \A i \in 1..frames :
                        decoded.channels[channel][i] =
                            Dequantize(BytesToInt16(data)
                                         [(i - 1) * channelCount + channel])

(***************************************************************************)
(* Sessions, capture and the metering loop.                                *)
(***************************************************************************)
\* C12: at most one session is connected and not closed, and that session
\* is the one liveSessionPromiseRef refers to, also after two open triggers
\* that came before the isLive flag was rendered.
C12_OneSessionOpen ==
    /\ Cardinality({ s \in SessionIds : sessions[s] = "open" }) <= 1
    /\ \A s \in SessionIds : sessions[s] = "open" => liveSessionPromiseRef = s

\* C13: close() is invoked at most once on a session, and exactly once by
\* the first close trigger on a session that has connected (a session still
\* connecting is closed when it connects); every close trigger, a repeated
\* one included, connects no session and leaves isLive false, the status
\* idle and the session reference null; a repeated trigger changes nothing
\* of the sessions.
C13_CloseIdempotent ==
    [][/\ \A s \in SessionIds : closeCalls'[s] <= 1
       /\ CloseBranch =>
            /\ ~isLive'
            /\ liveStatus' = "idle"
            /\ liveSessionPromiseRef' = NoSession
            /\ \A s \in SessionIds :
                  sessions[s] = "none" => sessions'[s] = "none"
            /\ liveSessionPromiseRef # NoSession =>
                  \/ closeCalls'[liveSessionPromiseRef] = 1
                  \/ liveSessionPromiseRef \in closeReq'
            /\ ~isLive => UNCHANGED << sessions, closeReq, closeCalls >>
      ]_vars

\* close was triggered on a connected session, close() was called on it,
\* and the handler at hand still sees isLive = true: a second trigger closes
C13_Witness ==
    /\ renderedIsLive
    /\ ~isLive
    /\ liveSessionPromiseRef = NoSession
    /\ \E s \in SessionIds :
          closeCalls[s] = 1 /\ sessions[s] \in { "closing", "closed" }

\* C14: once close has been triggered on a session and the microphone
\* request of its onopen has settled, the metering loop of that session has
\* no frame requested (draw does not run and publishes no mic level), also
\* when the close came while onopen awaited the microphone or the connect
\* was pending.
C14_CloseCancelsMetering ==
    \A s \in SessionIds :
        (closeCalls[s] > 0 /\ capture[s] # "asking") => s \notin drawing

\* C15: once close has been triggered on a session, its capture stream is
\* not held and its audio graph processes no input block.
C15_CloseReleasesCapture ==
    \A s \in SessionIds : closeCalls[s] > 0 => capture[s] # "on"

(***************************************************************************)
(* Order of the message handlers.                                          *)
(***************************************************************************)
\* C16: no message is handled while the handler of an earlier message is
\* suspended at an await with effects still to come, so the effects of the
\* handlers occur in the order the messages arrived.
C16_HandlersDoNotOverlap ==
    [][\A s \in SessionIds, msg \in SessionMessages :
          onmessage(s, msg) => suspended = << >>]_vars

(***************************************************************************)
(* Live captions.                                                          *)
(***************************************************************************)
\* C17: once a message that does not carry turn-complete has been handled
\* and React has rendered, the UI shows the accumulators, which hold for
\* each role the concatenation in arrival order of the fragments received
\* since the last turn boundary.
C17_LiveCaptions ==
    (~turnSnap.valid /\ suspended = << >> /\ ~fiber.lanes) =>
        /\ liveTranscriptRef = heard
        /\ liveTranscript = heard

(***************************************************************************)
(* Playback state across sessions, and the socket events.                  *)
(***************************************************************************)
\* C18: when a session is opened the next start offset is 0 and the active
\* playback set is empty, so its first chunk starts at the current time.
C18_SchedulerScopedToSession ==
    [][OpenBranch => nextStartTimeRef' = 0 /\ audioSourcesRef' = {}]_vars

\* C19: handling onerror or onclose sets the live status to idle and leaves
\* isLive, the session reference, the active playback set and the next
\* start offset as they were.
C19_SocketEventsForceIdle ==
    [][\A s \in SessionIds :
          (onerror(s) \/ onclose(s)) =>
              /\ liveStatus' = "idle"
              /\ UNCHANGED << isLive, liveSessionPromiseRef, audioSourcesRef,
                              nextStartTimeRef >>]_vars

\* the socket of the session at hand has closed while a chunk was playing:
\* the status is idle, the session is still live and referenced, the chunk
\* is still in the active set
C19_Witness ==
    \E s \in SessionIds :
        /\ sessions[s] = "closed"
        /\ isLive
        /\ liveSessionPromiseRef = s
        /\ liveStatus = "idle"
        /\ audioSourcesRef # {}
        /\ nextStartTimeRef > 0

(***************************************************************************)
(* The reminder tool of the chat (specification SpecReminder).             *)
(***************************************************************************)
\* the setReminder calls of fcs up to the i-th
SetReminderUpTo(fcs, i) ==
    Cardinality({ j \in 1..i : fcs[j].name = "setReminder" })

\* a setReminder call whose dateTime does not parse as a date
Unparseable(call) ==
    call.name = "setReminder" /\ call.hasArgs /\ DateGetTime(call.dateTime).nan

\* C20: when the response carries setReminder calls, all with arguments,
\* each call whose dateTime does not parse as a date adds no reminder, shows
\* no 'Reminder set!' toast and is answered 'Failed to parse date.'; the
\* handler goes on to send the function responses.
C20_ReminderDateFailure ==
    [][\A fcs \in ResponseCallSeqs :
          (/\ Response(fcs)
           /\ \A i \in 1..Len(fcs) : fcs[i].hasArgs
           /\ \E i \in 1..Len(fcs) : Unparseable(fcs[i])) =>
              /\ sendPc' = "responded"
              /\ Len(reminders') = Len(reminders)
                    + Cardinality({ i \in 1..Len(fcs) :
                                      /\ fcs[i].name = "setReminder"
                                      /\ ~Unparseable(fcs[i]) })
              /\ \A k \in 1..Len(reminders') : ~reminders'[k].dueTime.nan
              /\ (\A i \in 1..Len(fcs) :
                      fcs[i].name = "setReminder" => Unparseable(fcs[i]))
                    => toast' = toast
              /\ \A i \in 1..Len(fcs) :
                    Unparseable(fcs[i]) =>
                        functionResponses'[SetReminderUpTo(fcs, i)].result
                            = Failed]_vars

(***************************************************************************)
(* The transient action status (specification SpecTools).                  *)
(***************************************************************************)
\* C21: an action status is cleared by a timer only once the full delay has
\* passed since it was set: when a timer clears a status that is showing, no
\* timer of a later action is still running.
C21_ActionStatusFullDelay ==
    [][\A d \in 0..(MaxClock + ActionDelay) :
          (ActionTimer(d) /\ liveActionStatus # << >>) =>
              \A e \in timers : e <= currentTime]_vars

(***************************************************************************)
(* The live status (specification Spec).                                   *)
(***************************************************************************)
\* C22: while no session is open (isLive is false), the live status is
\* idle, also when a chunk that was playing at the close ends.
C22_IdleWhileClosed ==
    ~isLive => liveStatus = "idle"

\* the status after a turn-complete: listening when the active set, once an
\* interruption of the same message has flushed it, is empty, else unchanged
StatusAfterTurn(msg) ==
    IF Interrupted(Cur, msg).sources = {} THEN "listening" ELSE liveStatus

\* a chunk ends: the status becomes listening when that empties the active
\* set and is left as it was otherwise
EndedStatus ==
    \A n \in 1..MaxNodes :
        Ended(n) => liveStatus' = IF audioSourcesRef' = {} THEN "listening"
                                  ELSE liveStatus

\* C23 as stated: handling a message with turn-complete leaves the status
\* listening if the active set is empty at that moment and unchanged if
\* not; the status becomes listening when a chunk's end empties the set.
C23_TurnCompleteStatus ==
    [][/\ \A s \in SessionIds, msg \in SchedMessages :
            (msg.turnComplete /\ onmessage(s, msg)) =>
                liveStatus' = StatusAfterTurn(msg)
       /\ EndedStatus]_vars

\* C23: handling a message with turn-complete and no audio payload leaves
\* the status listening if the active set is empty at that moment and
\* unchanged if not; the status becomes listening when a chunk's end
\* empties the set.
C23_TurnCompleteStatusNoAudio ==
    [][/\ \A s \in SessionIds, msg \in SchedMessages :
            (msg.turnComplete /\ msg.audio = NoAudio /\ onmessage(s, msg)) =>
                liveStatus' = StatusAfterTurn(msg)
       /\ EndedStatus]_vars

\* turn-complete was handled while a chunk was playing: still speaking
C23_Witness ==
    /\ turnSnap.valid
    /\ audioSourcesRef # {}
    /\ liveStatus = "speaking"
    /\ e2e.phase = "turned"

(***************************************************************************)
(* Captured blocks (specification SpecCapture).                            *)
(***************************************************************************)
\* C24: a block captured by the pipeline of a session is sent only to that
\* session, and to no session once its own session was closed.
C24_BlocksReachOwnSession ==
    [][\A s \in SessionIds :
          onaudioprocess(s) =>
              /\ liveSessionPromiseRef = s
              /\ closeCalls[s] = 0]_vars

(***************************************************************************)
(* The reminder checker (specification SpecReminder).                      *)
(***************************************************************************)
\* the position of the first due reminder, 0 when none is due
FirstDue ==
    IF \E i \in 1..Len(reminders) : IsDue(reminders[i])
    THEN CHOOSE i \in 1..Len(reminders) :
            /\ IsDue(reminders[i])
            /\ \A j \in 1..(i - 1) : ~IsDue(reminders[j])
    ELSE 0

\* the list without its i-th entry
Without(list, i) ==
    [k \in 1..(Len(list) - 1) |-> IF k < i THEN list[k] ELSE list[k + 1]]

\* C25: a check with a reminder due shows the first due reminder of the
\* list and removes it, and all the others remain; a check with none due
\* shows and removes nothing.
C25_ReminderCheckSafety ==
    [][ReminderCheck =>
          IF FirstDue = 0
          THEN UNCHANGED << reminders, toast >>
          ELSE /\ toast' = ReminderToast(reminders[FirstDue].text)
               /\ reminders' = Without(reminders, FirstDue)]_vars

\* C26: every reminder of the list is shown once it is due: a reminder
\* leaves the list only in a step that shows it, one reminder at a step, so
\* that none is dropped before it was shown.
C26_ReminderShownBeforeRemoved ==
    [][Len(reminders') < Len(reminders) =>
          /\ Len(reminders') = Len(reminders) - 1
          /\ FirstDue # 0
          /\ toast' = ReminderToast(reminders[FirstDue].text)]_vars

(***************************************************************************)
(* Bond level and memories (specification SpecBond).                       *)
(***************************************************************************)
\* C27: the bond level is never negative and the mood is never Pensive or
\* Concerned; a positive sentiment raises the bond level by 1, a negative
\* one lowers it by 1 but not below 0, any other leaves it as it was.
C27_BondLevelBounds ==
    [][/\ bondLevel' >= 0
       /\ mood' \notin { "Pensive", "Concerned" }
       /\ \A sentiment \in Sentiments :
             Sentiment(sentiment) =>
                 bondLevel' =
                     IF sentiment = "positive" THEN bondLevel + 1
                     ELSE IF sentiment = "negative" /\ bondLevel > 0
                     THEN bondLevel - 1
                     ELSE bondLevel]_vars

\* a negative sentiment has brought the bond level back to 0, the mood of
\* the level above still standing
C27_Witness ==
    /\ bondLevel = 0
    /\ mood = "Content"
    /\ extracting > 0

\* the smaller of two numbers
Min(a, b) == IF a <= b THEN a ELSE b

\* C28: the memory list holds at most 20 entries, the memories extracted
\* last, in the order they were extracted; nothing else changes the list.
C28_MemoryCap ==
    LET kept == Min(extractedCount, MemoryCap)
    IN  /\ Len(memories) <= MemoryCap
        /\ memories = [i \in 1..kept |-> extractedCount - kept + i]

\* more memories were extracted than the list holds: the oldest are gone
C28_Witness ==
    /\ extractedCount > MemoryCap
    /\ Len(memories) = MemoryCap
    /\ memories[1] = extractedCount - MemoryCap + 1

(***************************************************************************)
(* Chat history and message sends (specification SpecHistory).             *)
(***************************************************************************)
\* The saved chats of a step before its save: those of the state, with the
\* new summary when the step is the one in which summarizeChat resolves.
BeforeSave ==
    IF SummaryArrives
    THEN SetSummary(history, chatPc.chatId, Summarised)
    ELSE history

\* C29: the chat history holds at most one entry for a chat id and no chat
\* without messages; a step leaves the saved chats as they were, or replaces
\* the entry of the current chat at its position, all others untouched, or,
\* when the current chat has no entry, appends one; the entry written
\* holds the messages on screen, which are not empty.
C29_HistoryUpsert ==
    [][LET prev == BeforeSave
           ids == { prev[i].id : i \in DOMAIN prev }
       IN  /\ \A i, j \in DOMAIN history' :
                 history'[i].id = history'[j].id => i = j
           /\ \A i \in DOMAIN history' : history'[i].messages # << >>
           /\ \/ history' = prev
              \/ /\ messages' # << >>
                 /\ currentChatId' \in ids
                 /\ \E i \in DOMAIN prev :
                       /\ prev[i].id = currentChatId'
                       /\ Len(history') = Len(prev)
                       /\ history'[i].id = currentChatId'
                       /\ history'[i].messages = messages'
                       /\ \A j \in DOMAIN prev : j # i => history'[j] = prev[j]
              \/ /\ messages' # << >>
                 /\ currentChatId' \notin ids
                 /\ Len(history') = Len(prev) + 1
                 /\ SubSeq(history', 1, Len(prev)) = prev
                 /\ history'[Len(history')].id = currentChatId'
                 /\ history'[Len(history')].messages = messages']_vars

\* two chats are saved and the first, summarised when it was left, is on
\* screen again: loading it has replaced its entry at the first position
C29_Witness ==
    /\ Len(history) = 2
    /\ history[1].id = currentChatId
    /\ history[1].summary = Summarised
    /\ history[1].messages = messages
    /\ history[2].messages # << >>

\* A step in which a call of handleSendMessage ends.
SendEnds == sendPc # "idle" /\ sendPc' = "idle"

\* C30: a call of handleSendMessage appends one user message and one
\* assistant placeholder, every call ends with isLoading false, and a call
\* that fails writes the error text to its own placeholder, which is no
\* longer typing, and to no other message.
C30_SendCompletes ==
    [][/\ \A text \in UserTexts :
             handleSendMessage(text) =>
                 /\ Len(messages') = Len(messages) + 2
                 /\ SubSeq(messages', 1, Len(messages)) = messages
                 /\ messages'[Len(messages) + 1].sender = "user"
                 /\ messages'[Len(messages) + 1].text = text
                 /\ messages'[Len(messages) + 2].sender = "assistant"
                 /\ messages'[Len(messages) + 2].isTyping
       /\ SendEnds => ~isLoading'
       /\ SendEnds /\ assistantMessage' = "error" =>
             \E i \in DOMAIN messages :
                 /\ messages[i].id = assistantMessageId
                 /\ messages[i].sender = "assistant"
                 /\ messages' = [messages EXCEPT ![i].text = ErrorText,
                                                 ![i].isTyping = FALSE]]_vars

====
